---- MODULE Spec2Model ----
(***************************************************************************)
(* Model of streamlit_app.py: the colour pipeline (closest_color_name,     *)
(* color_style_tags, extract_colors), the response parser at the end of    *)
(* generate_brand_moodboard_content, and the control flow of main() across *)
(* reruns of the script in one process.                                    *)
(*                                                                         *)
(* Four specifications share the variables below; each leaves the          *)
(* variables of the other three at their initial values.                   *)
(*   SpecColor  - the two pure functions of one RGB triple                 *)
(*   SpecQuant  - extract_colors on a small image                          *)
(*   SpecParser - the fence stripping and json.loads of a response text    *)
(*   SpecMain   - main(), rerun after rerun, with both st.cache_data memos *)
(***************************************************************************)
EXTENDS Integers, Sequences, FiniteSets, TLC

VARIABLES
    \* SpecColor
    rgb,        \* the argument of closest_color_name / color_style_tags
    name,       \* what closest_color_name returned ("unset" before the call)
    tags,       \* what color_style_tags returned (<<"unset">> before the call)
    \* SpecQuant
    qpc,        \* position inside extract_colors
    image,      \* the reshaped pixel list, a sequence of RGB triples
    k,          \* n_clusters
    labels,     \* kmeans.labels_: pixel index -> cluster index
    colors,     \* cluster_centers_.astype(int), in cluster order
    palette,    \* colors[sorted_indices], the returned array
    \* SpecParser
    ppc,        \* "call" before the parser ran, "done" after
    fence,      \* how the response text was put together: [pre, ws1, body, ws2, post]
    text,       \* response.text
    parsed,     \* what json.loads returned, or "ParseError"
    \* SpecMain
    pc,         \* position inside main(); "idle" between reruns
    secretKey,  \* st.secrets["GEMINI_API_KEY"], or "absent"
    uploaded,   \* the file_uploader widget's value
    k_clusters, \* the slider widget's value
    run,        \* what the current rerun did so far (a record, reset by each rerun)
    extractMemo,\* st.cache_data memo of extract_colors: set of (image, k)
    genMemo,    \* st.cache_data memo of generate_brand_moodboard_content
    hist        \* history of the process: reruns started, remote calls, failures reported

colorVars  == <<rgb, name, tags>>
quantVars  == <<qpc, image, k, labels, colors, palette>>
parserVars == <<ppc, fence, text, parsed>>
mainVars   == <<pc, secretKey, uploaded, k_clusters, run, extractMemo, genMemo, hist>>
vars == <<colorVars, quantVars, parserVars, mainVars>>

Max3(a, b, c) == IF a >= b /\ a >= c THEN a ELSE IF b >= c THEN b ELSE c
Min3(a, b, c) == IF a <= b /\ a <= c THEN a ELSE IF b <= c THEN b ELSE c

(***************************************************************************)
(* I. closest_color_name and color_style_tags                              *)
(***************************************************************************)

\* The catalog in dict iteration (insertion) order.
COLOR_NAMES ==
    << <<"white", <<255, 255, 255>> >>, <<"black", <<0, 0, 0>> >>,
       <<"gray", <<128, 128, 128>> >>, <<"red", <<220, 20, 60>> >>,
       <<"orange", <<255, 140, 0>> >>, <<"yellow", <<255, 215, 0>> >>,
       <<"green", <<34, 139, 34>> >>, <<"blue", <<30, 144, 255>> >>,
       <<"purple", <<147, 112, 219>> >>, <<"pink", <<255, 182, 193>> >>,
       <<"brown", <<139, 69, 19>> >>, <<"beige", <<245, 245, 220>> >>,
       <<"navy", <<0, 0, 128>> >>, <<"olive", <<85, 107, 47>> >> >>

\* dist = (r - vr)**2 + (g - vg)**2 + (b - vb)**2
SqDist(c, v) ==
    (c[1] - v[1]) * (c[1] - v[1]) + (c[2] - v[2]) * (c[2] - v[2])
        + (c[3] - v[3]) * (c[3] - v[3])

\* One iteration of the for loop: acc = [min_dist, closest_name];
\* min_dist = -1 stands for float("inf"), closest_name = "None" for None.
NamerStepLastWins(acc, entry, c) ==
    LET dist == SqDist(c, entry[2])
    IN  IF acc.min_dist = -1 \/ dist <= acc.min_dist
        THEN [min_dist |-> dist, closest_name |-> entry[1]]
        ELSE acc

NamerStep(acc, entry, c) ==
    LET dist == SqDist(c, entry[2])
    IN  IF acc.min_dist = -1 \/ dist < acc.min_dist
        THEN [min_dist |-> dist, closest_name |-> entry[1]]
        ELSE acc

RECURSIVE NamerLoop(_, _, _)
NamerLoop(acc, i, c) ==
    IF i > Len(COLOR_NAMES) THEN acc
    ELSE NamerLoop(NamerStep(acc, COLOR_NAMES[i], c), i + 1, c)

closest_color_name(c) ==
    NamerLoop([min_dist |-> -1, closest_name |-> "None"], 1, c).closest_name

\* color_style_tags.  brightness = (r + g + b) / 3 is a float; it is compared
\* with 200, 60 and 120 only, and s / 3 > 200 iff s > 600 (likewise < 60 iff
\* s < 180, < 120 iff s < 360) for every integer s, also in binary floating
\* point, so the model keeps Sum3 = 3 * brightness.
Sum3(c) == c[1] + c[2] + c[3]
Chroma(c) == Max3(c[1], c[2], c[3]) - Min3(c[1], c[2], c[3])

TemperatureTagsNoElif(c) ==
    (IF c[3] > c[1] /\ c[3] > c[2] THEN <<"cool">> ELSE <<>>)
        \o (IF c[1] > c[3] /\ c[2] > c[3] THEN <<"warm">> ELSE <<"neutral">>)

TemperatureTags(c) ==
    IF c[3] > c[1] /\ c[3] > c[2] THEN <<"cool">>
    ELSE IF c[1] > c[3] /\ c[2] > c[3] THEN <<"warm">>
    ELSE <<"neutral">>

BrightnessTags(c) ==
    IF Sum3(c) > 600 THEN <<"bright">>
    ELSE IF Sum3(c) < 180 THEN <<"dark">>
    ELSE <<>>

ChromaTags(c) ==
    IF Chroma(c) > 100 THEN <<"vivid">>
    ELSE IF Chroma(c) < 30 THEN <<"muted">>
    ELSE <<>>

LuxuryTagsInclusive(c) ==
    IF Sum3(c) <= 360 /\ Chroma(c) <= 50 THEN <<"luxury">> ELSE <<>>

LuxuryTags(c) ==
    IF Sum3(c) < 360 /\ Chroma(c) < 50 THEN <<"luxury">> ELSE <<>>

NaturalTags(c) ==
    IF c[1] > 120 /\ c[2] > 100 /\ c[3] < 80 /\ Chroma(c) > 20
    THEN <<"natural">> ELSE <<>>

color_style_tags(c) ==
    TemperatureTags(c) \o BrightnessTags(c) \o ChromaTags(c)
        \o LuxuryTags(c) \o NaturalTags(c)

\* Channel values the triples are drawn from: the ends of the range, the
\* values around every threshold of color_style_tags, and the coordinates of
\* catalog ties ((0,0,64) black/navy, (64,64,179) gray/purple/navy).
Channels ==
    {0, 20, 30, 50, 59, 60, 64, 79, 80, 100, 101, 120, 121, 128, 179, 200, 201, 255}

ColorInitOff == rgb = <<0, 0, 0>> /\ name = "unset" /\ tags = <<"unset">>

ColorInit ==
    /\ rgb \in Channels \X Channels \X Channels
    /\ name = "unset"
    /\ tags = <<"unset">>

CallClosestColorName ==
    /\ UNCHANGED <<quantVars, parserVars, mainVars>>
    /\ name = "unset"
    /\ name' = closest_color_name(rgb)
    /\ UNCHANGED <<rgb, tags>>

CallColorStyleTags ==
    /\ UNCHANGED <<quantVars, parserVars, mainVars>>
    /\ tags = <<"unset">>
    /\ tags' = color_style_tags(rgb)
    /\ UNCHANGED <<rgb, name>>

ColorNext == CallClosestColorName \/ CallColorStyleTags

\* C1: once closest_color_name has returned, the result is a catalog key
\* (never None), no catalog entry is strictly closer to rgb than it, and no
\* entry earlier in iteration order is equally close.
C1_FirstNearest ==
    name # "unset" =>
        /\ name # "None"
        /\ \E i \in 1..Len(COLOR_NAMES) :
            /\ COLOR_NAMES[i][1] = name
            /\ \A j \in 1..Len(COLOR_NAMES) :
                SqDist(rgb, COLOR_NAMES[j][2]) >= SqDist(rgb, COLOR_NAMES[i][2])
            /\ \A j \in 1..(i - 1) :
                SqDist(rgb, COLOR_NAMES[j][2]) > SqDist(rgb, COLOR_NAMES[i][2])

\* C1 witness: the function returned for a triple that two catalog entries
\* are equally near to, (0,0,64) between black and navy.
C1_Witness ==
    /\ rgb = <<0, 0, 64>>
    /\ name = "black"
    /\ SqDist(rgb, <<0, 0, 0>>) = SqDist(rgb, <<0, 0, 128>>)

TagCount(seq, S) == Cardinality({i \in DOMAIN seq : seq[i] \in S})

\* C2: the returned list holds exactly one of cool/warm/neutral, at most one
\* of bright/dark, at most one of vivid/muted, and no tag twice.
C2_TagGroups ==
    tags # <<"unset">> =>
        /\ TagCount(tags, {"cool", "warm", "neutral"}) = 1
        /\ TagCount(tags, {"bright", "dark"}) <= 1
        /\ TagCount(tags, {"vivid", "muted"}) <= 1
        /\ \A i, j \in DOMAIN tags : i # j => tags[i] # tags[j]

\* C2 witness: a returned list with a tag of each of the three groups.
C2_Witness ==
    /\ tags # <<"unset">>
    /\ TagCount(tags, {"bright", "dark"}) = 1
    /\ TagCount(tags, {"vivid", "muted"}) = 1
    /\ TagCount(tags, {"cool", "warm"}) = 1

\* The claim's rules, one per tag, in the claim's order.
TagOrder ==
    <<"cool", "warm", "neutral", "bright", "dark", "vivid", "muted", "luxury", "natural">>

ClaimFires(t, c) ==
    LET cool == c[3] > c[1] /\ c[3] > c[2]
        warm == ~cool /\ c[1] > c[3] /\ c[2] > c[3]
        spread == Max3(c[1], c[2], c[3]) - Min3(c[1], c[2], c[3])
    IN  CASE t = "cool" -> cool
          [] t = "warm" -> warm
          [] t = "neutral" -> ~cool /\ ~warm
          [] t = "bright" -> c[1] + c[2] + c[3] > 600
          [] t = "dark" -> c[1] + c[2] + c[3] < 180
          [] t = "vivid" -> spread > 100
          [] t = "muted" -> spread < 30
          [] t = "luxury" -> c[1] + c[2] + c[3] < 360 /\ spread < 50
          [] t = "natural" -> c[1] > 120 /\ c[2] > 100 /\ c[3] < 80 /\ spread > 20

ClaimTags(c) == LET Fires(t) == ClaimFires(t, c) IN SelectSeq(TagOrder, Fires)

\* C8: the returned list is exactly the tags whose rule fires, in the order
\* temperature, brightness, chroma, luxury, natural; it is never empty and
\* starts with the temperature tag; (20,20,20) and (255,255,255) give the
\* lists the claim names.
C8_TagList ==
    tags # <<"unset">> =>
        /\ tags = ClaimTags(rgb)
        /\ Len(tags) >= 1
        /\ tags[1] \in {"cool", "warm", "neutral"}
        /\ rgb = <<20, 20, 20>> => tags = <<"neutral", "dark", "muted", "luxury">>
        /\ rgb = <<255, 255, 255>> => tags = <<"neutral", "bright", "muted">>

\* C8 witness: the call returned for the claim's first example.
C8_Witness ==
    /\ rgb = <<20, 20, 20>>
    /\ tags = <<"neutral", "dark", "muted", "luxury">>

(***************************************************************************)
(* II. extract_colors                                                      *)
(***************************************************************************)

\* Bounds of the images tried.
NumPixels == 4
MaxK == 3

\* Pixel values the images are made of.
PixelVals == {<<0, 0, 0>>, <<1, 2, 0>>, <<255, 0, 0>>, <<0, 130, 0>>}

Images == UNION {[1..n -> PixelVals] : n \in 1..NumPixels}

\* Members of cluster j, and the sum of their channel ch.
Members(img, lab, j) == {i \in DOMAIN img : lab[i] = j}

RECURSIVE SumOver(_, _, _)
SumOver(img, S, ch) ==
    IF S = {} THEN 0
    ELSE LET i == CHOOSE x \in S : TRUE
         IN  img[i][ch] + SumOver(img, S \ {i}, ch)

ChannelSum(img, lab, j, ch) == SumOver(img, Members(img, lab, j), ch)
ClusterSize(img, lab, j) == Cardinality(Members(img, lab, j))

\* Squared distance of pixel p to the centroid of cluster j, times the
\* square of the cluster's size (the centroid is ChannelSum / ClusterSize).
ScaledDist(img, lab, p, j) ==
    LET n == ClusterSize(img, lab, j)
        d(ch) == p[ch] * n - ChannelSum(img, lab, j, ch)
    IN  d(1) * d(1) + d(2) * d(2) + d(3) * d(3)

\* KMeans(n_clusters=k, random_state=42, n_init='auto').fit(img) is library
\* code: the model takes for its outcome any converged clustering, that is
\* k non-empty clusters whose centres are the means of their members and
\* where no pixel is strictly nearer to another cluster's centre.
Converged(img, lab, kk) ==
    /\ \A j \in 1..kk : Members(img, lab, j) # {}
    /\ \A i \in DOMAIN img : \A j \in 1..kk :
        LET own == lab[i]
            no == ClusterSize(img, lab, own)
            nj == ClusterSize(img, lab, j)
        IN  ScaledDist(img, lab, img[i], own) * nj * nj
                <= ScaledDist(img, lab, img[i], j) * no * no

\* ndarray.astype(int) of a centre coordinate total / n >= 0: truncation.
AsIntNearest(total, n) == (2 * total + n) \div (2 * n)

AsInt(total, n) == total \div n

\* colors = kmeans.cluster_centers_.astype(int)
CentersAsInt(img, lab, kk) ==
    [j \in 1..kk |->
        [ch \in 1..3 |-> AsInt(ChannelSum(img, lab, j, ch), ClusterSize(img, lab, j))]]

\* 1000 * (0.299 R + 0.587 G + 0.114 B).  On integer colours two exact
\* luminances differ by at least 0.001 or not at all, far above the rounding
\* error of the float dot product, so np.argsort orders by this value and is
\* free only among exact ties.
Lum1000(c) == 299 * c[1] + 587 * c[2] + 114 * c[3]

Perms(kk) == {f \in [1..kk -> 1..kk] : \A a, b \in 1..kk : a # b => f[a] # f[b]}

ArgsortNone(cs) == {[j \in DOMAIN cs |-> j]}

\* np.argsort(luminances): the index orders that sort the luminances.
Argsort(cs) ==
    {f \in Perms(Len(cs)) :
        \A a, b \in 1..Len(cs) : a < b => Lum1000(cs[f[a]]) <= Lum1000(cs[f[b]])}

QuantInitOff ==
    /\ qpc = "off" /\ image = <<>> /\ k = 0
    /\ labels = <<>> /\ colors = <<>> /\ palette = <<>>

QuantInit ==
    /\ qpc = "fit"
    /\ image \in Images
    /\ k \in 2..MaxK
    /\ labels = <<>> /\ colors = <<>> /\ palette = <<>>

\* kmeans.fit(img) with fewer samples than clusters raises ValueError,
\* which extract_colors does not catch.
KMeansFitRaises ==
    /\ UNCHANGED <<colorVars, parserVars, mainVars>>
    /\ qpc = "fit"
    /\ Len(image) < k
    /\ qpc' = "raised"
    /\ UNCHANGED <<image, k, labels, colors, palette>>

KMeansFit ==
    /\ UNCHANGED <<colorVars, parserVars, mainVars>>
    /\ qpc = "fit"
    /\ Len(image) >= k
    /\ labels' \in {lab \in [DOMAIN image -> 1..k] : Converged(image, lab, k)}
    /\ qpc' = "fitted"
    /\ UNCHANGED <<image, k, colors, palette>>

\* Lines 112-119: astype(int), luminances, argsort, fancy indexing.
ReturnPalette ==
    /\ UNCHANGED <<colorVars, parserVars, mainVars>>
    /\ qpc = "fitted"
    /\ colors' = CentersAsInt(image, labels, k)
    /\ \E sorted_indices \in Argsort(colors') :
        palette' = [i \in 1..k |-> colors'[sorted_indices[i]]]
    /\ qpc' = "done"
    /\ UNCHANGED <<image, k, labels>>

QuantNext == KMeansFitRaises \/ KMeansFit \/ ReturnPalette

\* C5: the returned palette has exactly K entries, every channel an integer
\* in 0..255, and luminance computed on the returned colours never decreases
\* along it.
C5_PaletteSorted ==
    qpc = "done" =>
        /\ Len(palette) = k
        /\ \A i \in 1..Len(palette) : \A ch \in 1..3 : palette[i][ch] \in 0..255
        /\ \A i, j \in 1..Len(palette) :
            i < j => Lum1000(palette[i]) <= Lum1000(palette[j])

\* C5 witness: a palette was returned whose order differs from the cluster
\* order, so the sort moved something.
C5_Witness ==
    /\ qpc = "done"
    /\ palette # colors
    /\ \E i \in 1..(Len(palette) - 1) : Lum1000(palette[i]) < Lum1000(palette[i + 1])

IsRearrangement(a, b) ==
    /\ Len(a) = Len(b)
    /\ \E f \in Perms(Len(a)) : \A i \in 1..Len(a) : a[i] = b[f[i]]

Abs(x) == IF x < 0 THEN -x ELSE x

\* C9 as claimed: every returned channel is within 0.5 of its cluster's
\* centroid coordinate (|colour * n - total| * 2 <= n).
C9_NearestInteger ==
    qpc = "done" =>
        \A j \in 1..k : \A ch \in 1..3 :
            LET n == ClusterSize(image, labels, j)
                total == ChannelSum(image, labels, j, ch)
            IN  2 * Abs(colors[j][ch] * n - total) <= n

\* C9 amended: every returned channel is its cluster's centroid coordinate
\* truncated, 0 <= centroid - colour < 1, and the palette holds exactly these
\* colours.
C9_Truncated ==
    qpc = "done" =>
        /\ IsRearrangement(palette, colors)
        /\ \A j \in 1..k : \A ch \in 1..3 :
            LET n == ClusterSize(image, labels, j)
                total == ChannelSum(image, labels, j, ch)
            IN  /\ colors[j][ch] * n <= total
                /\ total < (colors[j][ch] + 1) * n

\* C9 witness: a returned colour whose centroid coordinate has a fractional
\* part above one half.
C9_Witness ==
    /\ qpc = "done"
    /\ \E j \in 1..k : \E ch \in 1..3 :
        LET n == ClusterSize(image, labels, j)
            total == ChannelSum(image, labels, j, ch)
        IN  2 * (total - colors[j][ch] * n) > n

(***************************************************************************)
(* III. The response parser (generate_brand_moodboard_content, 178-182)    *)
(***************************************************************************)

\* Texts are sequences of characters, each a one-character string, except
\* the backquote (U+0060), which is written "BQ".
FenceJson == <<"BQ", "BQ", "BQ", "j", "s", "o", "n">>
Fence3 == <<"BQ", "BQ", "BQ">>
DocNull == <<"n", "u", "l", "l">>
DocEmptyObject == <<"{", "}">>
DocObjA1 == <<"{", "\"", "a", "\"", ":", "1", "}">>
NotJson == <<"n", "o", "t", " ", "j", "s", "o", "n">>

Whitespace == {" ", "\n", "\t", "\r"}

RECURSIVE LStripChars(_, _)
\* str.lstrip(chars): drops leading characters that are in the set chars.
LStripChars(s, chars) ==
    IF s # <<>> /\ Head(s) \in chars THEN LStripChars(Tail(s), chars) ELSE s

RECURSIVE RStripChars(_, _)
\* str.rstrip(chars): drops trailing characters that are in the set chars.
RStripChars(s, chars) ==
    IF s # <<>> /\ s[Len(s)] \in chars
    THEN RStripChars(SubSeq(s, 1, Len(s) - 1), chars)
    ELSE s

\* str.strip()
Strip(s) == RStripChars(LStripChars(s, Whitespace), Whitespace)

StartsWith(s, prefix) ==
    Len(s) >= Len(prefix) /\ SubSeq(s, 1, Len(prefix)) = prefix

EndsWith(s, suffix) ==
    Len(s) >= Len(suffix) /\ SubSeq(s, Len(s) - Len(suffix) + 1, Len(s)) = suffix

CharSet(s) == {s[i] : i \in DOMAIN s}

\* json.loads on the texts of this model: surrounding whitespace is allowed,
\* the three documents below are the only valid JSON among the texts and
\* their remainders, everything else raises json.JSONDecodeError.
JsonLoads(s) ==
    LET doc == Strip(s)
    IN  CASE doc = DocNull -> "None"
          [] doc = DocEmptyObject -> "EmptyObject"
          [] doc = DocObjA1 -> "ObjA1"
          [] OTHER -> "ParseError"

\* Lines 178-182.  str.lstrip and str.rstrip take their argument (the fence
\* marker) as a set of characters.
parse_response(t) ==
    LET json_text == Strip(t)
    IN  IF StartsWith(json_text, FenceJson)
        THEN JsonLoads(Strip(RStripChars(LStripChars(json_text, CharSet(FenceJson)),
                                         CharSet(Fence3))))
        ELSE JsonLoads(json_text)

\* How many newlines may surround each part of a response text.
MaxNewlines == 1

Newlines == {[i \in 1..n |-> "\n"] : n \in 0..MaxNewlines}

Fences ==
    [lead : Newlines, pre : {<<>>, FenceJson, Fence3}, ws1 : Newlines,
     body : {DocNull, DocEmptyObject, DocObjA1, NotJson}, ws2 : Newlines,
     post : {<<>>, Fence3}]

TextOf(f) == f.lead \o f.pre \o f.ws1 \o f.body \o f.ws2 \o f.post

ParserInitOff ==
    /\ ppc = "off" /\ text = <<>> /\ parsed = "unset"
    /\ fence = [lead |-> <<>>, pre |-> <<>>, ws1 |-> <<>>, body |-> <<>>,
                ws2 |-> <<>>, post |-> <<>>]

ParserInit ==
    /\ ppc = "call"
    /\ fence \in Fences
    /\ text = TextOf(fence)
    /\ parsed = "unset"

ParseResponse ==
    /\ UNCHANGED <<colorVars, quantVars, mainVars>>
    /\ ppc = "call"
    /\ parsed' = parse_response(text)
    /\ ppc' = "done"
    /\ UNCHANGED <<fence, text>>

ParserNext == ParseResponse

\* The text the claim says is parsed: the literal prefix and the literal
\* trailing fence removed when present, and surrounding whitespace.
ClaimStripped(t) ==
    LET s0 == Strip(t)
        s1 == IF StartsWith(s0, FenceJson) THEN SubSeq(s0, Len(FenceJson) + 1, Len(s0)) ELSE s0
        s2 == IF EndsWith(s1, Fence3) THEN SubSeq(s1, 1, Len(s1) - Len(Fence3)) ELSE s1
    IN  Strip(s2)

\* C3: for a text that starts with the fence marker (three backquotes,
\* json), the result of the parser is json.loads of the text with that
\* literal prefix and the literal trailing three backquotes removed; so a
\* JSON document J wrapped in the fence, with newlines around it or not,
\* parses to the value of the bare J.
C3_LiteralFence ==
    (ppc = "done" /\ StartsWith(Strip(text), FenceJson)) =>
        /\ parsed = JsonLoads(ClaimStripped(text))
        /\ (fence.post = Fence3 /\ JsonLoads(fence.body) # "ParseError")
            => parsed = JsonLoads(fence.body)

(***************************************************************************)
(* IV. main(): one rerun of the script per user interaction                *)
(***************************************************************************)

\* Reruns of the script in one process.
MaxRuns == 4

Keys == {"keyA"}
\* Uploaded files: a photo, a file cv2 cannot decode, and an image with fewer
\* pixels than any K of the slider.
UploadValues == {"None", "photo", "corrupt", "tiny"}
SliderValues == {3, 5}
SliderDefault == 5
Widgets == {"file_uploader", "slider"}

\* Arguments of generate_brand_moodboard_content, the key of its memo:
\* color_data, which extract_colors makes a function of (image, k), and api_key.
GenKeys == {"photo"} \X SliderValues \X Keys

\* Texts the remote service may answer with: the fenced object the prompt
\* asks for, a bare empty object, prose, and a fenced null without newlines.
ResponseTexts ==
    { FenceJson \o <<"\n">> \o DocObjA1 \o <<"\n">> \o Fence3,
      DocEmptyObject,
      NotJson,
      FenceJson \o DocNull \o Fence3 }

\* Classes of the exception a failing client.models.generate_content raises:
\* the transport's own (not a ConnectionError) or a builtin ConnectionError.
RemoteExceptionClasses == {"APIError", "ConnectionError"}

\* The except clauses of lines 326-332: which st.error is shown.
ReportedFor(cls) ==
    IF cls = "ConnectionError" THEN "call_failed" ELSE "content_failed"

\* bool(llm_result) at line 338.
Truthy(v) == v = "ObjA1"

FreshRun(key) ==
    [keyAtStart |-> key, rendered |-> {"title"}, extractCalls |-> 0,
     extractComputed |-> 0, remoteCalls |-> 0, genHit |-> FALSE,
     failure |-> "none", reported |-> "none", llm_result |-> "unset"]

NoRun == [FreshRun("absent") EXCEPT !.rendered = {}]

MainInitOff ==
    /\ pc = "off" /\ secretKey = "absent" /\ uploaded = "None"
    /\ k_clusters = SliderDefault /\ run = NoRun
    /\ extractMemo = {} /\ genMemo = [g \in GenKeys |-> "miss"]
    /\ hist = [runs |-> 0, remoteCalls |-> 0, outcomes |-> {}, produced |-> {}]

MainInit ==
    /\ pc = "idle"
    /\ secretKey \in {"absent"} \cup Keys
    /\ uploaded = "None"
    /\ k_clusters = SliderDefault
    /\ run = NoRun
    /\ extractMemo = {}
    /\ genMemo = [g \in GenKeys |-> "miss"]
    /\ hist = [runs |-> 0, remoteCalls |-> 0, outcomes |-> {}, produced |-> {}]

Fail(kind, report) ==
    /\ run' = [run EXCEPT !.failure = kind, !.reported = report,
                          !.rendered = @ \cup {"error"}]
    /\ pc' = "idle"

\* The secrets file is edited between reruns.
EditSecrets ==
    /\ UNCHANGED <<colorVars, quantVars, parserVars>>
    /\ pc = "idle"
    /\ secretKey' \in ({"absent"} \cup Keys) \ {secretKey}
    /\ UNCHANGED <<pc, uploaded, k_clusters, run, extractMemo, genMemo, hist>>

\* A page load or a widget interaction starts main() (lines 222-233).  The
\* widgets take new values only if the previous rerun rendered them;
\* otherwise their state is dropped and they are back at their defaults.
Rerun ==
    /\ UNCHANGED <<colorVars, quantVars, parserVars>>
    /\ pc = "idle"
    /\ hist.runs < MaxRuns
    /\ IF Widgets \subseteq run.rendered
       THEN uploaded' \in UploadValues /\ k_clusters' \in SliderValues
       ELSE uploaded' = "None" /\ k_clusters' = SliderDefault
    /\ run' = FreshRun(secretKey)
    /\ hist' = [hist EXCEPT !.runs = @ + 1]
    /\ pc' = "secrets"
    /\ UNCHANGED <<secretKey, extractMemo, genMemo>>

ReadSecretsNoReturn ==
    /\ UNCHANGED <<colorVars, quantVars, parserVars>>
    /\ pc = "secrets"
    /\ run' = IF secretKey = "absent"
              THEN [run EXCEPT !.reported = "key_missing", !.rendered = @ \cup {"error"}]
              ELSE run
    /\ pc' = "sidebar"
    /\ UNCHANGED <<secretKey, uploaded, k_clusters, extractMemo, genMemo, hist>>

\* Lines 236-243.
ReadSecrets ==
    /\ UNCHANGED <<colorVars, quantVars, parserVars>>
    /\ pc = "secrets"
    /\ IF secretKey = "absent"
       THEN /\ run' = [run EXCEPT !.reported = "key_missing",
                                  !.rendered = @ \cup {"error"}]
            /\ pc' = "idle"
       ELSE /\ pc' = "sidebar"
            /\ run' = run
    /\ UNCHANGED <<secretKey, uploaded, k_clusters, extractMemo, genMemo, hist>>

\* Lines 247-263.
RenderSidebar ==
    /\ UNCHANGED <<colorVars, quantVars, parserVars>>
    /\ pc = "sidebar"
    /\ IF uploaded = "None"
       THEN /\ run' = [run EXCEPT !.rendered = @ \cup Widgets \cup {"info"}]
            /\ pc' = "idle"
       ELSE /\ run' = [run EXCEPT !.rendered = @ \cup Widgets]
            /\ pc' = "decode"
    /\ UNCHANGED <<secretKey, uploaded, k_clusters, extractMemo, genMemo, hist>>

\* Lines 266-280.
DecodeImage ==
    /\ UNCHANGED <<colorVars, quantVars, parserVars>>
    /\ pc = "decode"
    /\ IF uploaded = "corrupt"
       THEN Fail("decode", "image_read_failed")
       ELSE /\ run' = [run EXCEPT !.rendered = @ \cup {"image"}]
            /\ pc' = "extract"
    /\ UNCHANGED <<secretKey, uploaded, k_clusters, extractMemo, genMemo, hist>>

\* Lines 287-317: the memoised extract_colors, then names, tags, palette
\* figure and tag table.  KMeans raising is not caught by main.
ExtractColors ==
    /\ UNCHANGED <<colorVars, quantVars, parserVars>>
    /\ pc = "extract"
    /\ LET key == <<uploaded, k_clusters>>
       IN  IF key \in extractMemo
           THEN /\ run' = [run EXCEPT !.extractCalls = @ + 1,
                                      !.rendered = @ \cup {"palette", "tag_table"}]
                /\ pc' = "generate"
                /\ UNCHANGED extractMemo
           ELSE IF uploaded = "tiny"
           THEN /\ run' = [run EXCEPT !.extractCalls = @ + 1,
                                      !.extractComputed = @ + 1,
                                      !.failure = "uncaught",
                                      !.reported = "exception",
                                      !.rendered = @ \cup {"exception"}]
                /\ pc' = "idle"
                /\ UNCHANGED extractMemo
           ELSE /\ run' = [run EXCEPT !.extractCalls = @ + 1,
                                      !.extractComputed = @ + 1,
                                      !.rendered = @ \cup {"palette", "tag_table"}]
                /\ extractMemo' = extractMemo \cup {key}
                /\ pc' = "generate"
    /\ UNCHANGED <<secretKey, uploaded, k_clusters, genMemo, hist>>

GenKey == <<uploaded, k_clusters, secretKey>>

MemoLookupIgnoringK(g) ==
    IF \E h \in GenKeys : h[1] = g[1] /\ h[3] = g[3] /\ genMemo[h] # "miss"
    THEN genMemo[CHOOSE h \in GenKeys : h[1] = g[1] /\ h[3] = g[3] /\ genMemo[h] # "miss"]
    ELSE "miss"

\* st.cache_data on generate_brand_moodboard_content (lines 121-123): the
\* stored return value for these arguments, or "miss".
MemoLookup(g) == genMemo[g]

\* Line 325, memo hit: the stored value is returned, the body does not run.
GenerateMemoHit ==
    /\ UNCHANGED <<colorVars, quantVars, parserVars>>
    /\ pc = "generate"
    /\ MemoLookup(GenKey) # "miss"
    /\ run' = [run EXCEPT !.genHit = TRUE, !.llm_result = MemoLookup(GenKey)]
    /\ pc' = "result"
    /\ UNCHANGED <<secretKey, uploaded, k_clusters, extractMemo, genMemo, hist>>

\* Lines 128-133 raise ConnectionError, caught at 326-329.
GenerateClientFails ==
    /\ UNCHANGED <<colorVars, quantVars, parserVars>>
    /\ pc = "generate"
    /\ MemoLookup(GenKey) = "miss"
    /\ Fail("client", ReportedFor("ConnectionError"))
    /\ hist' = [hist EXCEPT !.outcomes = @ \cup {<<"client", ReportedFor("ConnectionError")>>}]
    /\ UNCHANGED <<secretKey, uploaded, k_clusters, extractMemo, genMemo>>

GenerateRemoteRaisesRetry ==
    /\ UNCHANGED <<colorVars, quantVars, parserVars>>
    /\ pc = "generate"
    /\ MemoLookup(GenKey) = "miss"
    /\ run.remoteCalls < 2
    /\ \E cls \in RemoteExceptionClasses :
        /\ run' = [run EXCEPT !.remoteCalls = @ + 1, !.failure = "remote",
                              !.reported = ReportedFor(cls),
                              !.rendered = @ \cup {"error"}]
        /\ pc' = IF run.remoteCalls = 0 THEN "generate" ELSE "idle"
        /\ hist' = [hist EXCEPT !.remoteCalls = @ + 1,
                                !.outcomes = @ \cup {<<"remote", ReportedFor(cls)>>}]
    /\ UNCHANGED <<secretKey, uploaded, k_clusters, extractMemo, genMemo>>

\* Lines 173-176 raise; the exception leaves generate_brand_moodboard_content
\* unwrapped and is caught by whichever except clause of 326-332 matches.
GenerateRemoteRaises ==
    /\ UNCHANGED <<colorVars, quantVars, parserVars>>
    /\ pc = "generate"
    /\ MemoLookup(GenKey) = "miss"
    /\ \E cls \in RemoteExceptionClasses :
        /\ run' = [run EXCEPT !.remoteCalls = @ + 1, !.failure = "remote",
                              !.reported = ReportedFor(cls),
                              !.rendered = @ \cup {"error"}]
        /\ pc' = "idle"
        /\ hist' = [hist EXCEPT !.remoteCalls = @ + 1,
                                !.outcomes = @ \cup {<<"remote", ReportedFor(cls)>>}]
    /\ UNCHANGED <<secretKey, uploaded, k_clusters, extractMemo, genMemo>>

\* The remote call returns a text that json.loads rejects (lines 178-182);
\* JSONDecodeError is a ValueError and is caught at 330-332.
GenerateParseFails ==
    /\ UNCHANGED <<colorVars, quantVars, parserVars>>
    /\ pc = "generate"
    /\ MemoLookup(GenKey) = "miss"
    /\ \E t \in ResponseTexts :
        /\ parse_response(t) = "ParseError"
        /\ run' = [run EXCEPT !.remoteCalls = @ + 1, !.failure = "parse",
                              !.reported = ReportedFor("JSONDecodeError"),
                              !.rendered = @ \cup {"error"}]
        /\ pc' = "idle"
        /\ hist' = [hist EXCEPT !.remoteCalls = @ + 1,
                                !.outcomes = @ \cup {<<"parse", ReportedFor("JSONDecodeError")>>}]
    /\ UNCHANGED <<secretKey, uploaded, k_clusters, extractMemo, genMemo>>

\* The remote call returns a text that parses: the value is stored in the
\* memo and returned.
GenerateReturns ==
    /\ UNCHANGED <<colorVars, quantVars, parserVars>>
    /\ pc = "generate"
    /\ MemoLookup(GenKey) = "miss"
    /\ \E t \in ResponseTexts :
        /\ parse_response(t) # "ParseError"
        /\ run' = [run EXCEPT !.remoteCalls = @ + 1, !.llm_result = parse_response(t)]
        /\ genMemo' = [genMemo EXCEPT ![GenKey] = parse_response(t)]
        /\ hist' = [hist EXCEPT !.remoteCalls = @ + 1,
                                !.produced = @ \cup {<<GenKey, parse_response(t)>>}]
        /\ pc' = "result"
    /\ UNCHANGED <<secretKey, uploaded, k_clusters, extractMemo>>

\* Lines 334-415.
RenderResult ==
    /\ UNCHANGED <<colorVars, quantVars, parserVars>>
    /\ pc = "result"
    /\ run' = IF Truthy(run.llm_result)
              THEN [run EXCEPT !.rendered = @ \cup {"result_section"}]
              ELSE run
    /\ pc' = "idle"
    /\ UNCHANGED <<secretKey, uploaded, k_clusters, extractMemo, genMemo, hist>>

MainNext ==
    \/ EditSecrets \/ Rerun \/ ReadSecrets \/ RenderSidebar \/ DecodeImage
    \/ ExtractColors \/ GenerateMemoHit \/ GenerateClientFails
    \/ GenerateRemoteRaises \/ GenerateParseFails \/ GenerateReturns
    \/ RenderResult

\* C4 as claimed: a rerun that ended in a parse failure and a rerun that
\* ended in a failure of the remote call never reported the same error.
C4_DistinctReports ==
    \A a, b \in hist.outcomes :
        (a[1] = "parse" /\ b[1] = "remote") => a[2] # b[2]

\* C6: in a rerun that started with the API key absent, the error is
\* reported and main returns: no input widget is rendered, extract_colors is
\* not called and no remote call is made.
C6_HaltOnMissingKey ==
    (hist.runs > 0 /\ run.keyAtStart = "absent") =>
        /\ pc \in {"secrets", "idle"}
        /\ pc = "idle" => (run.reported = "key_missing" /\ "error" \in run.rendered)
        /\ run.rendered \cap Widgets = {}
        /\ run.extractCalls = 0
        /\ run.remoteCalls = 0

\* C6 witness: a rerun halted on the missing key in a process whose earlier
\* rerun had got as far as extracting colours.
C6_Witness ==
    /\ pc = "idle"
    /\ run.keyAtStart = "absent"
    /\ run.reported = "key_missing"
    /\ extractMemo # {}

GenerationFailures == {"client", "remote", "parse"}

\* C7: a rerun makes at most one remote call; if generation failed (client
\* construction, remote call or parsing) the rerun has ended with the error
\* reported and without the result section; over the process there are no
\* more remote calls than reruns.
C7_NoRetry ==
    /\ run.remoteCalls <= 1
    /\ hist.remoteCalls <= hist.runs
    /\ run.failure \in GenerationFailures =>
        /\ pc = "idle"
        /\ run.reported \in {"call_failed", "content_failed"}
        /\ "error" \in run.rendered
        /\ "result_section" \notin run.rendered

\* C7 witness: a rerun that ended on a failed remote call, after its one
\* attempt, in a process that had already failed once before.
C7_Witness ==
    /\ pc = "idle"
    /\ run.failure = "remote"
    /\ run.remoteCalls = 1
    /\ hist.remoteCalls >= 2

InitColor == ColorInit /\ QuantInitOff /\ ParserInitOff /\ MainInitOff

SpecColor == InitColor /\ [][ColorNext]_vars

InitQuant == ColorInitOff /\ QuantInit /\ ParserInitOff /\ MainInitOff

SpecQuant == InitQuant /\ [][QuantNext]_vars

InitParser == ColorInitOff /\ QuantInitOff /\ ParserInit /\ MainInitOff

SpecParser == InitParser /\ [][ParserNext]_vars

InitMain == ColorInitOff /\ QuantInitOff /\ ParserInitOff /\ MainInit

SpecMain == InitMain /\ [][MainNext]_vars

====
